---- MODULE Spec2Model ----
(***************************************************************************)
(* Model of the TGL render service: the pitch model, chord builder,        *)
(* string assignment and spread, fret resolver, scale classifier and the   *)
(* two renderers of tgl_core.py, and the /render/triad handler of app.py.  *)
(*                                                                         *)
(* Conventions.  A Python str that the code inspects character by          *)
(* character (a note name) is a sequence of one-character strings; other   *)
(* strings (quality, mode, spread, output) are TLA+ strings.  Python None  *)
(* in an Optional[str] is the sentinel None.  A call that may raise        *)
(* returns Ok(v) or Raise(exc, msg).                                       *)
(***************************************************************************)
EXTENDS Integers, Sequences, FiniteSets, TLC

VARIABLES pc, req, ret, out, status, coreCalled

vars == <<pc, req, ret, out, status, coreCalled>>

None == "None"

Ok(v) == [ok |-> TRUE, val |-> v, exc |-> "", msg |-> <<>>]

Raise(e, m) == [ok |-> FALSE, val |-> <<>>, exc |-> e, msg |-> m]

NoCall == [ok |-> FALSE, val |-> <<>>, exc |-> "", msg |-> <<>>]

(***************************************************************************)
(* Pitch model                                                             *)
(***************************************************************************)
NOTES_SHARP ==
  << <<"C">>, <<"C","#">>, <<"D">>, <<"D","#">>, <<"E">>, <<"F">>,
     <<"F","#">>, <<"G">>, <<"G","#">>, <<"A">>, <<"A","#">>, <<"B">> >>

ENH_EQ ==
  (<<"D","b">> :> <<"C","#">>) @@ (<<"E","b">> :> <<"D","#">>) @@
  (<<"G","b">> :> <<"F","#">>) @@ (<<"A","b">> :> <<"G","#">>) @@
  (<<"B","b">> :> <<"A","#">>)

TUNING == << <<"E">>, <<"B">>, <<"G">>, <<"D">>, <<"A">>, <<"E">> >>

\* list.index: the 0-based position of the first element equal to x
list_index(lst, x) ==
  IF \E i \in 1..Len(lst) : lst[i] = x
  THEN Ok((CHOOSE i \in 1..Len(lst) :
             lst[i] = x /\ \A j \in 1..(i-1) : lst[j] # x) - 1)
  ELSE Raise("ValueError", <<"is not in list">>)

OPEN_IDX == [i \in 1..6 |-> list_index(NOTES_SHARP, TUNING[i]).val]

\* str.upper on one character
char_upper(c) ==
  CASE c = "a" -> "A" [] c = "b" -> "B" [] c = "c" -> "C" [] c = "d" -> "D"
    [] c = "e" -> "E" [] c = "f" -> "F" [] c = "g" -> "G" [] c = "h" -> "H"
    [] OTHER -> c

\* str.lower on one character
char_lower(c) ==
  CASE c = "A" -> "a" [] c = "B" -> "b" [] c = "C" -> "c" [] c = "D" -> "d"
    [] c = "E" -> "e" [] c = "F" -> "f" [] c = "G" -> "g" [] c = "H" -> "h"
    [] OTHER -> c

str_upper(n) == [i \in 1..Len(n) |-> char_upper(n[i])]

str_lower(n) == [i \in 1..Len(n) |-> char_lower(n[i])]

dict_get(d, k, default) == IF k \in DOMAIN d THEN d[k] ELSE default

norm_note(n) == str_upper(dict_get(ENH_EQ, n, n))

note_to_idx(n) == list_index(NOTES_SHARP, norm_note(n))

idx_to_note(i) == NOTES_SHARP[((((i % 12) + 12) % 12)) + 1]

add_int(idx, semitones) == (idx + semitones) % 12

string_note_at_fret(string_num, fret) == idx_to_note(OPEN_IDX[string_num] + fret)

(***************************************************************************)
(* Fret resolver                                                           *)
(***************************************************************************)
WindowSpan == 6

\* the inner loop: the first t in lo..hi whose note has pitch class target;
\* <<t>> when found, <<>> when the loop ends with found = None
RECURSIVE scan_window(_, _, _, _)
scan_window(s, target, t, hi) ==
  IF t > hi THEN Ok(<<>>)
  ELSE LET i == note_to_idx(string_note_at_fret(s, t)) IN
       IF ~i.ok THEN i
       ELSE IF i.val = target THEN Ok(<<t>>)
       ELSE scan_window(s, target, t + 1, hi)

\* range(lo, hi) in place of range(lo, hi+1)
find_fret_exclusive_hi(s, target, lo, hi) == scan_window(s, target, lo, hi - 1)

find_fret(s, target, lo, hi) == scan_window(s, target, lo, hi)

dict_set(d, k, v) == [x \in (DOMAIN d) \cup {k} |-> IF x = k THEN v ELSE d[x]]

EmptyDict == [x \in {} |-> 0]

RECURSIVE choose_loop(_, _, _, _, _)
choose_loop(mapping, i, result, lo, hi) ==
  IF i > Len(mapping) THEN Ok(result)
  ELSE LET s == mapping[i][1]
           target == mapping[i][2]
           found == find_fret(s, target, lo, hi)
       IN IF ~found.ok THEN found
          ELSE IF found.val = <<>>
          THEN Raise("ValueError", <<"Sem posicao para corda", s, "na janela", lo, hi>>)
          ELSE choose_loop(mapping, i + 1, dict_set(result, s, found.val[1]), lo, hi)

choose_frets_for_mapping(mapping, start_fret) ==
  choose_loop(mapping, 1, EmptyDict, start_fret, start_fret + WindowSpan)

IsNoPosition(r) ==
  ~r.ok /\ r.exc = "ValueError" /\ Len(r.msg) > 0 /\ r.msg[1] = "Sem posicao para corda"

(***************************************************************************)
(* Chord builder                                                           *)
(***************************************************************************)
MODES ==
  [ ionian     |-> <<0,2,4,5,7,9,11>>,
    dorian     |-> <<0,2,3,5,7,9,10>>,
    phrygian   |-> <<0,1,3,5,7,8,10>>,
    lydian     |-> <<0,2,4,6,7,9,11>>,
    mixolydian |-> <<0,2,4,5,7,9,10>>,
    aeolian    |-> <<0,2,3,5,7,8,10>>,
    locrian    |-> <<0,1,3,5,6,8,10>>,
    harm_minor |-> <<0,2,3,5,7,8,11>>,
    mel_minor  |-> <<0,2,3,5,7,9,11>> ]

QUALITY_INTERVALS ==
  [ maj |-> <<0,4,7>>, min |-> <<0,3,7>>, dim |-> <<0,3,6>>, aug |-> <<0,4,8>> ]

DEFAULT_SCALE_FOR_QUALITY ==
  [ maj |-> "ionian", min |-> "aeolian", dim |-> "locrian", aug |-> "ionian" ]

TETRAD_INTERVALS ==
  ("maj7" :> <<0,4,7,11>>) @@ ("min7" :> <<0,3,7,10>>) @@ ("7" :> <<0,4,7,10>>) @@
  ("m7b5" :> <<0,3,6,10>>) @@ ("dim7" :> <<0,3,6,9>>)

\* the elements of a list
Range(seq) == {seq[i] : i \in 1..Len(seq)}

\* d[k] on a dict: KeyError when k is no key
dict_index(d, k) == IF k \in DOMAIN d THEN Ok(d[k]) ELSE Raise("KeyError", <<k>>)

\* pcs[1:] + pcs[:1], n times
RECURSIVE rotate_left(_, _)
rotate_left(pcs, n) ==
  IF n = 0 \/ Len(pcs) = 0 THEN pcs
  ELSE rotate_left(Tail(pcs) \o <<Head(pcs)>>, n - 1)

triad_pitches(root, quality, inversion) ==
  LET root_idx == note_to_idx(root)
      ints == dict_index(QUALITY_INTERVALS, quality)
  IN IF ~root_idx.ok THEN root_idx
     ELSE IF ~ints.ok THEN ints
     ELSE Ok(rotate_left([i \in 1..Len(ints.val) |-> (root_idx.val + ints.val[i]) % 12],
                         inversion % 3))

tetrad_pitches(root, quality, inversion) ==
  IF quality \notin DOMAIN TETRAD_INTERVALS
  THEN Raise("ValueError", <<"quality deve ser: maj7|min7|7|m7b5|dim7">>)
  ELSE LET root_idx == note_to_idx(root)
           ints == TETRAD_INTERVALS[quality]
       IN IF ~root_idx.ok THEN root_idx
          ELSE Ok(rotate_left([i \in 1..Len(ints) |-> (root_idx.val + ints[i]) % 12],
                              inversion % 4))

(***************************************************************************)
(* String assignment and spread                                            *)
(***************************************************************************)
\* sorted(strings): insertion of each element into an ascending sequence
RECURSIVE insert_sorted(_, _)
insert_sorted(x, seq) ==
  IF seq = <<>> THEN <<x>>
  ELSE IF x < Head(seq) THEN <<x>> \o seq
  ELSE <<Head(seq)>> \o insert_sorted(x, Tail(seq))

RECURSIVE sorted(_)
sorted(seq) == IF seq = <<>> THEN <<>> ELSE insert_sorted(Head(seq), sorted(Tail(seq)))

reversed(seq) == [i \in 1..Len(seq) |-> seq[Len(seq) + 1 - i]]

Min2(a, b) == IF a < b THEN a ELSE b

\* zip(a, b): pairs up to the shorter length
zip(a, b) == [i \in 1..Min2(Len(a), Len(b)) |-> <<a[i], b[i]>>]

\* the voices zipped bottom-to-top, whatever the flag says
assign_to_strings_reversed(pcs, strings, order_top_to_bottom) ==
  Ok(zip(sorted(strings), reversed(pcs)))

assign_to_strings(pcs, strings, order_top_to_bottom) ==
  LET s_sorted == sorted(strings)
      seq == IF order_top_to_bottom THEN pcs ELSE reversed(pcs)
  IN Ok(zip(s_sorted, seq))

assign_to_strings_k(pcs, strings, order_top_to_bottom) ==
  LET s_sorted == sorted(strings)
      seq == IF order_top_to_bottom THEN pcs ELSE reversed(pcs)
  IN IF Len(seq) # Len(s_sorted)
     THEN Raise("ValueError", <<"numero de cordas deve = numero de vozes">>)
     ELSE Ok(zip(s_sorted, seq))

\* str.lower on the spread spellings the model feeds
spread_lower(spread) ==
  CASE spread = "Drop2" -> "drop2" [] spread = "DROP3" -> "drop3" [] OTHER -> spread

\* [V[i0], V[i1], ...] with 0-based indexes: IndexError past the end of V
pick(V, idxs) ==
  IF \E k \in 1..Len(idxs) : idxs[k] + 1 > Len(V)
  THEN Raise("IndexError", <<"list index out of range">>)
  ELSE Ok([k \in 1..Len(idxs) |-> V[idxs[k] + 1]])

falsy(s) == s = None \/ s = ""

apply_spread(mapping, spread) ==
  IF falsy(spread) THEN Ok(mapping)
  ELSE IF spread_lower(spread) = "drop2" THEN pick(mapping, <<0, 2, 1>>)
  ELSE IF spread_lower(spread) = "drop3" THEN pick(mapping, <<2, 0, 1>>)
  ELSE Ok(mapping)

apply_spread_k(mapping, spread) ==
  IF falsy(spread) THEN Ok(mapping)
  ELSE IF Len(mapping) = 3 /\ spread_lower(spread) = "drop2" THEN pick(mapping, <<0, 2, 1>>)
  ELSE IF Len(mapping) = 3 /\ spread_lower(spread) = "drop3" THEN pick(mapping, <<2, 0, 1>>)
  ELSE IF Len(mapping) = 4 /\ spread_lower(spread) = "drop2" THEN pick(mapping, <<0, 2, 3, 1>>)
  ELSE IF Len(mapping) = 4 /\ spread_lower(spread) = "drop3" THEN pick(mapping, <<0, 1, 3, 2>>)
  ELSE Ok(mapping)

(***************************************************************************)
(* Voicing generation                                                      *)
(***************************************************************************)
\* the values of a voicing: an int fret, None, or the text "X"
PyInt(f) == [k |-> "int", v |-> f]

PyNone == [k |-> "none", v |-> 0]

PyX == [k |-> "X", v |-> 0]

\* the frets alone, without the six null entries
make_voicing_keep_selected_only(frets) == [s \in DOMAIN frets |-> PyInt(frets[s])]

\* { s: None for s in range(1,7) } updated with frets
make_voicing(frets) ==
  [s \in (1..6) \cup DOMAIN frets |-> IF s \in DOMAIN frets THEN PyInt(frets[s]) ELSE PyNone]

generate_triad_voicing(root, quality, strings, inversion, spread, start_fret) ==
  LET pcs == triad_pitches(root, quality, inversion) IN
  IF ~pcs.ok THEN pcs ELSE
  LET mapping == assign_to_strings(pcs.val, strings, TRUE) IN
  IF ~mapping.ok THEN mapping ELSE
  LET spreaded == apply_spread(mapping.val, spread) IN
  IF ~spreaded.ok THEN spreaded ELSE
  LET frets == choose_frets_for_mapping(spreaded.val, start_fret) IN
  IF ~frets.ok THEN frets ELSE Ok(make_voicing(frets.val))

generate_tetrad_voicing(root, quality, strings, inversion, spread, start_fret) ==
  LET pcs == tetrad_pitches(root, quality, inversion) IN
  IF ~pcs.ok THEN pcs ELSE
  LET mapping == assign_to_strings_k(pcs.val, strings, TRUE) IN
  IF ~mapping.ok THEN mapping ELSE
  LET spreaded == apply_spread_k(mapping.val, spread) IN
  IF ~spreaded.ok THEN spreaded ELSE
  LET frets == choose_frets_for_mapping(spreaded.val, start_fret) IN
  IF ~frets.ok THEN frets ELSE Ok(make_voicing(frets.val))

(***************************************************************************)
(* Scale classifier and renderers                                          *)
(***************************************************************************)
scale_set(root, mode) ==
  LET m == IF mode = None THEN "ionian" ELSE mode
      r_idx == note_to_idx(root)
      degrees == dict_index(MODES, m)
  IN IF ~r_idx.ok THEN r_idx
     ELSE IF ~degrees.ok THEN degrees
     ELSE Ok({idx_to_note(r_idx.val + degrees.val[i]) : i \in 1..Len(degrees.val)})

\* scale_set(chord_root, scale_mode or DEFAULT_SCALE_FOR_QUALITY[quality])
render_scale(chord_root, quality, scale_mode) ==
  IF ~falsy(scale_mode) THEN scale_set(chord_root, scale_mode)
  ELSE LET d == dict_index(DEFAULT_SCALE_FOR_QUALITY, quality) IN
       IF ~d.ok THEN d ELSE scale_set(chord_root, d.val)

\* note[:2] left-justified in two columns
ljust2(n) ==
  LET cut == SubSeq(n, 1, Min2(2, Len(n))) IN
  IF Len(cut) = 0 THEN <<" ", " ">> ELSE IF Len(cut) = 1 THEN cut \o <<" ">> ELSE cut

ascii_cell(absf, col, fret, note, scale, highlight_scale, show_all_scale) ==
  IF absf = PyX /\ col = 0 THEN <<" ", "X", " ">>
  ELSE IF absf.k = "int" /\ absf.v = fret THEN <<" ">> \o ljust2(note)
  ELSE IF highlight_scale /\ (show_all_scale \/ absf.k = "int") /\ note \in scale
  THEN <<" ">> \o ljust2(str_lower(SubSeq(note, 1, Min2(2, Len(note)))))
  ELSE <<" ", ".", " ">>

render_ascii_grid(voicing, start_fret, chord_root, quality, scale_mode, highlight_scale, show_all_scale) ==
  LET lo == start_fret
      scale == render_scale(chord_root, quality, scale_mode)
  IN IF ~scale.ok THEN scale
     ELSE Ok([ lines |-> [s \in 1..6 |->
                 [c \in 1..7 |->
                    ascii_cell(dict_get(voicing, s, PyNone), c - 1, lo + c - 1,
                               string_note_at_fret(s, lo + c - 1), scale.val,
                               highlight_scale, show_all_scale)]],
               ruler |-> [c \in 1..7 |-> c - 1] ])

CELL_W == 45

CELL_H == 60

PADDING_L == 70

PADDING_T == 60

Max2(a, b) == IF a > b THEN a ELSE b

\* the (string, column) cells in drawing order
GridCells == [k \in 1..42 |-> [s |-> ((k - 1) \div 7) + 1, col |-> (k - 1) % 7]]

\* one marker; x2 is twice the x of its translate (colX(col) + CELL_W/2)
svg_marker(cell, isPlaced, note, triad_pcs) ==
  LET isChordTone == note_to_idx(note).val \in Range(triad_pcs) IN
  [ x2 |-> 2 * (PADDING_L + cell.col * CELL_W) + CELL_W,
    y |-> PADDING_T + (cell.s - 1) * CELL_H,
    fill |-> IF isPlaced /\ isChordTone THEN "#111"
             ELSE IF isPlaced THEN "#333" ELSE "#2aa4f4",
    textFill |-> IF isPlaced THEN "#fff" ELSE "#001f3f",
    strokeWidth |-> IF isPlaced THEN 2 ELSE 1,
    note |-> note ]

svg_draws(isPlaced, isScale, highlight_scale, show_all_scale) ==
  isPlaced \/ (show_all_scale /\ highlight_scale /\ isScale)

render_svg_fretboard(voicing, start_fret, chord_root, quality, scale_mode, highlight_scale, show_all_scale, width, height) ==
  LET lo == start_fret
      triad_pcs == triad_pitches(chord_root, quality, 0)
      scale == render_scale(chord_root, quality, scale_mode)
      Placed(cell) == LET absf == dict_get(voicing, cell.s, PyNone) IN
                      absf.k = "int" /\ absf.v = lo + cell.col
      Note(cell) == string_note_at_fret(cell.s, lo + cell.col)
      Drawn(cell) == svg_draws(Placed(cell), Note(cell) \in scale.val,
                               highlight_scale, show_all_scale)
      drawn == SelectSeq(GridCells, Drawn)
  IN IF ~triad_pcs.ok THEN triad_pcs
     ELSE IF ~scale.ok THEN scale
     ELSE Ok([ markers |-> [i \in 1..Len(drawn) |->
                 svg_marker(drawn[i], Placed(drawn[i]), Note(drawn[i]), triad_pcs.val)],
               ruler |-> [c \in 1..7 |-> lo + c - 1],
               w |-> Max2(PADDING_L + CELL_W * 7 + 40, width),
               h |-> Max2(PADDING_T + CELL_H * 6 + 80, height) ])

DefaultWidth == 420

DefaultHeight == 520

(***************************************************************************)
(* The /render/triad handler                                               *)
(***************************************************************************)
API_KEY == "changeme"

\* an Authorization header "<scheme> <cred>", or no header
Header(scheme, cred) == [present |-> TRUE, scheme |-> scheme, cred |-> cred]

NoHeader == [present |-> FALSE, scheme |-> "", cred |-> ""]

\* str.strip on the credentials the model feeds
str_strip(s) == CASE s = " changeme " -> "changeme" [] OTHER -> s

HTTPException(code, detail) == Raise("HTTPException", <<code, detail>>)

check_auth(auth) ==
  IF ~auth.present \/ auth.scheme # "Bearer"
  THEN HTTPException(401, "Missing Authorization header")
  ELSE IF str_strip(auth.cred) # API_KEY
  THEN HTTPException(403, "Invalid API key")
  ELSE Ok(<<>>)

\* the two checks under "validacoes simples"
validate_payload(payload) ==
  IF payload.quality \notin DOMAIN QUALITY_INTERVALS
  THEN HTTPException(400, "quality deve ser: maj|min|dim|aug")
  ELSE IF ~falsy(payload.scale_mode) /\ payload.scale_mode \notin DOMAIN MODES
  THEN HTTPException(400, "scale_mode invalido")
  ELSE Ok(<<>>)

\* the response to an output kind once the SVG is rendered
dispatch_output(output, cairosvg_installed) ==
  IF output = "svg" THEN Ok("image/svg+xml")
  ELSE IF output = "png"
  THEN IF cairosvg_installed THEN Ok("image/png")
       ELSE HTTPException(500, "PNG requer CairoSVG")
  ELSE HTTPException(400, "output invalido. Use: svg|png|ascii")

Respond(code) == status' = code /\ pc' = "done"

CheckAuth ==
  /\ pc = "recv"
  /\ LET r == check_auth(req.auth) IN
     IF r.ok THEN pc' = "validate" /\ UNCHANGED status ELSE Respond(r.msg[1])
  /\ UNCHANGED <<req, ret, out, coreCalled>>

Validate ==
  /\ pc = "validate"
  /\ LET r == validate_payload(req) IN
     IF r.ok THEN pc' = "generate" /\ UNCHANGED status ELSE Respond(r.msg[1])
  /\ UNCHANGED <<req, ret, out, coreCalled>>

\* the try block: a ValueError of the core becomes a 422, any other
\* exception leaves the handler and is answered 500 by the framework
Generate ==
  /\ pc = "generate"
  /\ coreCalled' = TRUE
  /\ ret' = generate_triad_voicing(req.root, req.quality, req.strings, req.inversion,
                                   req.spread, req.start_fret)
  /\ IF ret'.ok THEN pc' = (IF req.output = "ascii" THEN "ascii" ELSE "svg") /\ UNCHANGED status
     ELSE IF ret'.exc = "ValueError" THEN Respond(422)
     ELSE Respond(500)
  /\ UNCHANGED <<req, out>>

RenderAscii ==
  /\ pc = "ascii"
  /\ out' = render_ascii_grid(ret.val, req.start_fret, req.root, req.quality, req.scale_mode,
                              req.highlight_scale, req.show_all_scale)
  /\ Respond(IF out'.ok THEN 200 ELSE 500)
  /\ UNCHANGED <<req, ret, coreCalled>>

RenderSvg ==
  /\ pc = "svg"
  /\ out' = render_svg_fretboard(ret.val, req.start_fret, req.root, req.quality,
                                 req.scale_mode, req.highlight_scale, req.show_all_scale,
                                 req.width, req.height)
  /\ IF out'.ok THEN pc' = "dispatch" /\ UNCHANGED status ELSE Respond(500)
  /\ UNCHANGED <<req, ret, coreCalled>>

Dispatch ==
  /\ pc = "dispatch"
  /\ LET r == dispatch_output(req.output, req.cairosvg) IN
     Respond(IF r.ok THEN 200 ELSE r.msg[1])
  /\ UNCHANGED <<req, ret, out, coreCalled>>

(***************************************************************************)
(* Library calls: one call per behaviour, its arguments drawn by Init      *)
(***************************************************************************)
MaxNameLen == 2

MaxStartFret == 18

MaxStart == 1

MaxInversion == 3

MaxStrings == 4

NoteChars == {"A","B","C","D","E","F","G","a","b","c","d","e","f","g","#","H"}

RECURSIVE SeqsUpTo(_, _)
SeqsUpTo(S, n) ==
  IF n = 0 THEN {<<>>}
  ELSE LET shorter == SeqsUpTo(S, n - 1) IN
       shorter \cup {Append(q, x) : q \in {r \in shorter : Len(r) = n - 1}, x \in S}

NoteInputs == SeqsUpTo(NoteChars, MaxNameLen) \ {<<>>}

Roots == {NOTES_SHARP[i] : i \in 1..12}

RECURSIVE Ascending(_)
Ascending(S) ==
  IF S = {} THEN <<>>
  ELSE LET m == CHOOSE x \in S : \A y \in S : x <= y IN <<m>> \o Ascending(S \ {m})

\* the caller's string tuples: each subset of the six strings, listed top to
\* bottom and bottom to top
StringTuples ==
  LET subsets == {S \in SUBSET (1..6) : Cardinality(S) >= 2 /\ Cardinality(S) <= MaxStrings}
  IN {Ascending(S) : S \in subsets} \cup {reversed(Ascending(S)) : S \in subsets}

Spreads == {None, "drop2", "drop3"}

Idle == pc = "call" /\ ret = NoCall /\ out = NoCall /\ status = 0 /\ coreCalled = FALSE

Return(r) == pc' = "done" /\ ret' = r /\ UNCHANGED <<req, out, status, coreCalled>>

InitNote == Idle /\ req \in [op : {"note_to_idx"}, n : NoteInputs]

CallNoteToIdx == pc = "call" /\ req.op = "note_to_idx" /\ Return(note_to_idx(req.n))

SpecNote == InitNote /\ [][CallNoteToIdx]_vars

InitFret ==
  Idle /\ req \in [op : {"choose_frets"}, s : 1..6, target : 0..11, start_fret : 0..MaxStartFret]

CallChooseFrets ==
  /\ pc = "call" /\ req.op = "choose_frets"
  /\ Return(choose_frets_for_mapping(<< <<req.s, req.target>> >>, req.start_fret))

SpecFret == InitFret /\ [][CallChooseFrets]_vars

InitVoicing ==
  /\ Idle
  /\ \/ req \in [op : {"triad"}, root : Roots, quality : DOMAIN QUALITY_INTERVALS,
                 strings : StringTuples, inversion : 0..MaxInversion, spread : Spreads,
                 start_fret : 0..MaxStart]
     \/ req \in [op : {"tetrad"}, root : Roots, quality : DOMAIN TETRAD_INTERVALS,
                 strings : StringTuples, inversion : 0..MaxInversion, spread : Spreads,
                 start_fret : 0..MaxStart]

CallGenerateTriad ==
  /\ pc = "call" /\ req.op = "triad"
  /\ Return(generate_triad_voicing(req.root, req.quality, req.strings, req.inversion,
                                   req.spread, req.start_fret))

CallGenerateTetrad ==
  /\ pc = "call" /\ req.op = "tetrad"
  /\ Return(generate_tetrad_voicing(req.root, req.quality, req.strings, req.inversion,
                                    req.spread, req.start_fret))

NextVoicing == CallGenerateTriad \/ CallGenerateTetrad

SpecVoicing == InitVoicing /\ [][NextVoicing]_vars

(***************************************************************************)
(* Renderer calls: both renderers applied to the same arguments            *)
(***************************************************************************)
MaxOffset == 1

AllQualities == (DOMAIN QUALITY_INTERVALS) \cup (DOMAIN TETRAD_INTERVALS)

\* voicings with at most one string in use: a fret of the window or "X"
RenderVoicings(start) ==
  {[s \in 1..6 |-> PyNone]} \cup
  {[s \in 1..6 |-> IF s = u THEN v ELSE PyNone] :
     u \in 1..6, v \in {PyInt(start + d) : d \in 0..MaxOffset} \cup {PyX}}

InitRender ==
  /\ Idle
  /\ \E start \in 0..MaxStart :
       req \in [op : {"render"}, voicing : RenderVoicings(start), start_fret : {start},
                root : Roots, quality : AllQualities,
                scale_mode : {None} \cup DOMAIN MODES,
                highlight_scale : BOOLEAN, show_all_scale : BOOLEAN]

CallRenderAscii ==
  /\ pc = "call" /\ req.op = "render"
  /\ ret' = render_ascii_grid(req.voicing, req.start_fret, req.root, req.quality,
                              req.scale_mode, req.highlight_scale, req.show_all_scale)
  /\ pc' = "ascii_done"
  /\ UNCHANGED <<req, out, status, coreCalled>>

CallRenderSvg ==
  /\ pc = "ascii_done" /\ req.op = "render"
  /\ out' = render_svg_fretboard(req.voicing, req.start_fret, req.root, req.quality,
                                 req.scale_mode, req.highlight_scale, req.show_all_scale,
                                 DefaultWidth, DefaultHeight)
  /\ pc' = "done"
  /\ UNCHANGED <<req, ret, status, coreCalled>>

NextRender == CallRenderAscii \/ CallRenderSvg

SpecRender == InitRender /\ [][NextRender]_vars


(***************************************************************************)
(* Requests to /render/triad                                               *)
(***************************************************************************)
AuthHeaders ==
  {NoHeader, Header("Basic", "changeme"), Header("Bearer", "wrong"),
   Header("Bearer", "changeme"), Header("Bearer", " changeme ")}

InitHandler ==
  /\ pc = "recv" /\ ret = NoCall /\ out = NoCall /\ status = 0 /\ coreCalled = FALSE
  /\ req \in [op : {"render_triad"}, auth : AuthHeaders,
              root : {<<"F">>, <<"C">>, <<"H">>},
              quality : {"maj", "min", "maj7"},
              strings : {<<1, 3, 5>>}, inversion : 0..2,
              spread : {None, "drop2", "drop3", "drop5"},
              start_fret : 0..MaxStart,
              scale_mode : {None, "dorian", "bogus"},
              highlight_scale : BOOLEAN, show_all_scale : {FALSE},
              output : {"svg", "png", "ascii", "pdf"},
              width : {DefaultWidth}, height : {DefaultHeight},
              cairosvg : BOOLEAN]

NextHandler == CheckAuth \/ Validate \/ Generate \/ RenderAscii \/ RenderSvg \/ Dispatch

SpecHandler == InitHandler /\ [][NextHandler]_vars

(***************************************************************************)
(* Properties                                                              *)
(***************************************************************************)
Distinct(seq) == Cardinality(Range(seq)) = Len(seq)

SetMin(S) == CHOOSE x \in S : \A y \in S : x <= y

\* the pitch class string s sounds at fret f
SoundingPc(s, f) == (OPEN_IDX[s] + f) % 12

\* the frets of the 7-fret window from start that sound target on string s
WindowHits(s, target, start) ==
  {f \in start..(start + 6) : SoundingPc(s, f) = target}

\* C1: choose_frets_for_mapping resolves a pair (s, pc) to the least fret of
\* start_fret..start_fret+6 that sounds pc on string s, and raises the
\* no-position-in-window error exactly when the window holds no such fret.
C1_LeastFretOrNoPosition ==
  (pc = "done" /\ req.op = "choose_frets") =>
    LET hits == WindowHits(req.s, req.target, req.start_fret) IN
    IF hits = {}
    THEN IsNoPosition(ret)
    ELSE ret.ok /\ DOMAIN ret.val = {req.s} /\ ret.val[req.s] = SetMin(hits)

\* a pair resolved to the last fret of its window, and the call has returned
C1_Witness ==
  /\ pc = "done" /\ req.op = "choose_frets" /\ ret.ok
  /\ ret.val[req.s] = req.start_fret + 6 /\ req.start_fret > 0

Voices(op) == IF op = "triad" THEN 3 ELSE 4

\* the inverted chord's pitch classes p0, p1, ...
ChordPcs(r) ==
  IF r.op = "triad" THEN triad_pitches(r.root, r.quality, r.inversion).val
  ELSE tetrad_pitches(r.root, r.quality, r.inversion).val

\* the spread tables of the specification, 0-based
SpreadTable(n, spread) ==
  CASE n = 3 /\ spread = "drop2" -> <<0, 2, 1>>
    [] n = 3 /\ spread = "drop3" -> <<2, 0, 1>>
    [] n = 4 /\ spread = "drop2" -> <<0, 2, 3, 1>>
    [] n = 4 /\ spread = "drop3" -> <<0, 1, 3, 2>>

WellFormedCall ==
  /\ pc = "done" /\ req.op \in {"triad", "tetrad"}
  /\ Distinct(req.strings) /\ Len(req.strings) = Voices(req.op)

\* C2: with spread drop2 or drop3 the returned voicing has string s_i (the
\* caller's strings sorted ascending) sounding pitch class p_perm[i], perm
\* being the spread table of the voice count.
C2_SpreadMovesVoices ==
  (WellFormedCall /\ ret.ok /\ req.spread \in {"drop2", "drop3"}) =>
    LET s == sorted(req.strings)
        p == ChordPcs(req)
        perm == SpreadTable(Len(s), req.spread)
    IN \A i \in 1..Len(s) :
         /\ ret.val[s[i]].k = "int"
         /\ SoundingPc(s[i], ret.val[s[i]].v) = p[perm[i] + 1]

\* C3: a returned voicing has exactly the keys 1..6, a concrete non-negative
\* fret on every string the caller selected and null on every other string.
C3_SelectedStringsFretted ==
  (WellFormedCall /\ ret.ok) =>
    /\ DOMAIN ret.val = 1..6
    /\ \A s \in 1..6 :
         IF s \in Range(req.strings)
         THEN ret.val[s].k = "int" /\ ret.val[s].v >= 0
         ELSE ret.val[s] = PyNone

\* a tetrad voicing with a spread, returned for strings given bottom to top
C3_Witness ==
  /\ WellFormedCall /\ ret.ok /\ req.op = "tetrad" /\ req.spread = "drop2"
  /\ req.strings[1] > req.strings[2] /\ req.inversion = 3

C4_Request ==
  /\ pc = "done" /\ req.op = "triad" /\ req.root = <<"C">> /\ req.quality = "maj"
  /\ req.strings = <<1, 2, 3>> /\ req.inversion = 0 /\ req.spread = None
  /\ req.start_fret = 0

\* C4 as stated: C major on strings (1,2,3), root position, no spread, window
\* from fret 0 returns {1:8, 2:6, 3:0, 4:null, 5:null, 6:null}.
C4_Original ==
  C4_Request =>
    /\ ret.ok
    /\ ret.val = [s \in 1..6 |-> CASE s = 1 -> PyInt(8) [] s = 2 -> PyInt(6)
                                    [] s = 3 -> PyInt(0) [] OTHER -> PyNone]

\* C4 amended: that request does not return a voicing; it raises the
\* no-position-in-window error for string 1 and the window 0..6 (C on string
\* 1 first sounds at fret 8).
C4_NoPositionOnString1 ==
  C4_Request =>
    /\ IsNoPosition(ret)
    /\ ret.msg[2] = 1 /\ ret.msg[4] = 0 /\ ret.msg[5] = 6
    /\ SetMin({f \in 0..24 : SoundingPc(1, f) = 0}) = 8

C4_Witness == C4_Request /\ ~ret.ok

IsVoiceCountMismatch(r) ==
  ~r.ok /\ r.exc = "ValueError" /\ Len(r.msg) > 0
        /\ r.msg[1] = "numero de cordas deve = numero de vozes"

\* C5: when the number of strings differs from the number of voices, triad
\* and tetrad generation alike fail with the voice-count-mismatch error and
\* return no voicing.
C5_MismatchRejected ==
  (pc = "done" /\ req.op \in {"triad", "tetrad"} /\ Len(req.strings) # Voices(req.op)) =>
    IsVoiceCountMismatch(ret)

FlatNames == DOMAIN ENH_EQ

\* the pitch class of the canonical sharp spelling of a table name
CanonicalPc(c) ==
  IF c \in FlatNames THEN list_index(NOTES_SHARP, ENH_EQ[c]).val
  ELSE list_index(NOTES_SHARP, c).val

\* the table names n spells, letter case ignored
SpelledNames(n) == {c \in Roots \cup FlatNames : str_lower(c) = str_lower(n)}

\* C6: note_to_idx returns the canonical pitch class for every sharp-spelled
\* and every flat name of the tables written in any letter case, and fails
\* with an invalid-root error on every other string.
C6_CaseInsensitiveRoots ==
  (pc = "done" /\ req.op = "note_to_idx") =>
    IF SpelledNames(req.n) # {}
    THEN ret.ok /\ \A c \in SpelledNames(req.n) : ret.val = CanonicalPc(c)
    ELSE ~ret.ok /\ ret.exc = "ValueError"

\* the cells (string, fret) the text grid marks as placed: an upper-case note
AsciiPlaced(grid, lo) ==
  {<<s, f>> \in (1..6) \X (lo..(lo + 6)) :
     grid.lines[s][f - lo + 1][2] \in {"A","B","C","D","E","F","G"}}

\* the cells the text grid marks as in-scale highlights: a lower-case note
AsciiScale(grid, lo) ==
  {<<s, f>> \in (1..6) \X (lo..(lo + 6)) :
     grid.lines[s][f - lo + 1][2] \in {"a","b","c","d","e","f","g"}}

\* the cell a marker is centred on, from its translate
MarkerCell(m, lo) ==
  <<((m.y - PADDING_T) \div CELL_H) + 1,
    lo + ((m.x2 - CELL_W - 2 * PADDING_L) \div (2 * CELL_W))>>

SvgPlaced(svg, lo) ==
  {MarkerCell(svg.markers[i], lo) :
     i \in {j \in 1..Len(svg.markers) : svg.markers[j].strokeWidth = 2}}

SvgScale(svg, lo) ==
  {MarkerCell(svg.markers[i], lo) :
     i \in {j \in 1..Len(svg.markers) : svg.markers[j].strokeWidth = 1}}

\* the scale the specification gives a root and a mode
ModeScale(root, mode) ==
  {idx_to_note(list_index(NOTES_SHARP, root).val + MODES[mode][i]) : i \in 1..7}

\* the default mode of a quality, ionian where none is defined
DefaultMode(quality) ==
  CASE quality = "maj" -> "ionian" [] quality = "min" -> "aeolian"
    [] quality = "dim" -> "locrian" [] quality = "aug" -> "ionian"
    [] OTHER -> "ionian"

\* C7: with a null scale mode the text grid is rendered, for every quality,
\* with the scale of the quality's default mode (ionian where the quality
\* has no default): with every scale note shown, the cells off the voicing
\* that are highlighted are exactly those whose note is in that scale.
C7_DefaultModeForQuality ==
  (pc \in {"ascii_done", "done"} /\ req.op = "render" /\ req.scale_mode = None) =>
    /\ ret.ok
    /\ (req.highlight_scale /\ req.show_all_scale) =>
         \A s \in 1..6, f \in req.start_fret..(req.start_fret + 6) :
           (req.voicing[s] \notin {PyInt(f), PyX}) =>
             (<<s, f>> \in AsciiScale(ret.val, req.start_fret)
                <=> string_note_at_fret(s, f) \in ModeScale(req.root, DefaultMode(req.quality)))

\* C10: the text grid and the vector diagram mark the same cells as placed
\* and the same cells as in-scale highlights, whatever the flags.
C10_RenderersAgree ==
  (pc = "done" /\ req.op = "render" /\ ret.ok /\ out.ok) =>
    /\ AsciiPlaced(ret.val, req.start_fret) = SvgPlaced(out.val, req.start_fret)
    /\ AsciiScale(ret.val, req.start_fret) = SvgScale(out.val, req.start_fret)

Answered == pc = "done" /\ req.op = "render_triad"

AuthFails(r) == ~r.auth.present \/ r.auth.scheme # "Bearer" \/ str_strip(r.auth.cred) # API_KEY

RootFault(r) == SpelledNames(r.root) = {}

QualityFault(r) == r.quality \notin {"maj", "min", "dim", "aug"}

ModeFault(r) == r.scale_mode # None /\ r.scale_mode \notin DOMAIN MODES

SpreadFault(r) == r.spread # None /\ spread_lower(r.spread) \notin {"drop2", "drop3"}

OutputFault(r) == r.output \notin {"svg", "png", "ascii"}

\* every field is valid, yet some voice has no fret in the window
WindowFault(r) ==
  /\ ~RootFault(r) /\ ~QualityFault(r) /\ ~ModeFault(r) /\ ~SpreadFault(r) /\ ~OutputFault(r)
  /\ IsNoPosition(generate_triad_voicing(r.root, r.quality, r.strings, r.inversion,
                                         r.spread, r.start_fret))

\* C8: the status code tells the failure kinds apart: an authentication
\* failure is answered 401 or 403, a voicing with no position in the window
\* 422, and an unrecognized root, quality or mode with a status that is none
\* of those.
C8_StatusIdentifiesKind ==
  Answered =>
    /\ AuthFails(req) => status \in {401, 403}
    /\ (~AuthFails(req) /\ WindowFault(req)) => status = 422
    /\ (~AuthFails(req) /\ (RootFault(req) \/ QualityFault(req) \/ ModeFault(req)))
         => status \notin {401, 403, 422}

\* C9: a request that fails authentication, or carries an unrecognized
\* quality, spread, scale mode or output, is answered without the core
\* having been called, the latter with the malformed-input status 400.
C9_ValidationBeforeCore ==
  Answered =>
    /\ AuthFails(req) => ~coreCalled
    /\ (~AuthFails(req) /\
        (QualityFault(req) \/ SpreadFault(req) \/ ModeFault(req) \/ OutputFault(req)))
         => (status = 400 /\ ~coreCalled)

====
